---- MODULE Spec2Model ----
(***************************************************************************)
(* Reservation and settlement engine of the event-ticketing backend.       *)
(*                                                                         *)
(* The database is the shared state.  Every service method is a call that  *)
(* runs as a sequence of database statements; statements of different      *)
(* calls interleave.  A prisma.$transaction block runs at the database's   *)
(* default isolation (PostgreSQL READ COMMITTED): each read sees the data  *)
(* committed when the statement runs, takes no lock, and the block's       *)
(* writes (atomic increments, absolute sets, inserts, deletes) become      *)
(* visible together at commit.  A block is therefore one step per read     *)
(* statement followed by one commit step that applies its writes to the    *)
(* then-current rows.  Statements outside a $transaction block commit one  *)
(* by one.                                                                 *)
(*                                                                         *)
(* Time is counted in hours.                                               *)
(***************************************************************************)
EXTENDS Integers, Sequences, FiniteSets, Bags, TLC

\* ---------------------------------------------------------------- bounds
MaxTxns == 2          \* transactions ever created
NumCallers == 2       \* calls in flight at the same time
MaxCalls == 4         \* calls started in one behaviour
Instants == <<0, 3, 76>>   \* the clock readings: creation, past the payment
                           \* deadline, past the confirmation grace period

\* ------------------------------------------------------ program constants
PaymentWindow == 2    \* hours until the payment deadline
GracePeriod == 72     \* hours (3 days) a payment proof may wait
ReferralPoints == 10000
WelcomeCoupon == 50000
WarningDays == 7      \* days of the expiring-soon window

\* ------------------------------------------------------- the fixture rows
Customers == {"buyer", "other"}
Organizer == "organizer"
Users == Customers \cup {Organizer}
\* an organizer who owns another event, and the users with an organizer row
Rival == "rival"
Organizers == {Organizer, Rival}
NoCode == "none"
\* the event of the ticket category; it ends between the last two instants
Event == [id |-> "E", endDate |-> Instants[3] - 1]
\* a voucher of another event
ForeignVoucher ==
  [id |-> 2, eventId |-> "F", code |-> "X", discountType |-> "FIXED",
   discountAmount |-> 35000, startDate |-> 0, endDate |-> 2160,
   usageLimit |-> 5, usedCount |-> 0]
\* ticketTypeId: "T" is the event's category, "T2" a category of another
\* event, anything else is no category
Req(u, q, vc, cc, p) ==
  [userId |-> u, ticketTypeId |-> "T", quantity |-> q, voucherCode |-> vc,
   couponCode |-> cc, pointsToUse |-> p]
\* the purchase requests callers send
Requests ==
  { Req("buyer", 8, NoCode, NoCode, 0),
    Req("buyer", 2, NoCode, NoCode, 0),
    Req("buyer", 2, NoCode, NoCode, 5000),
    Req("buyer", 2, "V", "C", 5000),
    Req("other", 2, NoCode, "C", 0),
    Req("organizer", 2, NoCode, NoCode, 0),
    Req("buyer", 0, NoCode, NoCode, 0),
    Req("buyer", 2, NoCode, NoCode, -1) }
\* the bodies organizers send to updateEvent: a new capacity, or a price only
Bodies ==
  { [hasSeats |-> TRUE, availableSeats |-> 12, hasPrice |-> FALSE, price |-> 0],
    [hasSeats |-> TRUE, availableSeats |-> 5, hasPrice |-> FALSE, price |-> 0],
    [hasSeats |-> FALSE, availableSeats |-> 0, hasPrice |-> TRUE,
     price |-> 50000] }
UsedDesc == "Used for transaction on event: E"
EarnedDesc == "Referral Reward"

VARIABLES
  now,          \* the clock
  ticketType,   \* the ticket category row
  voucher,      \* the voucher row of the event
  coupon,       \* the coupon row of the buyer
  userPoint,    \* users.point, the cached point total
  points,       \* the point ledger, oldest first
  txns,         \* the transaction rows, index = id
  attendees,    \* the attendee rows
  calls,        \* the calls in flight (a bag of call frames)
  started,      \* calls started so far
  last,         \* outcome of the call that returned last
  rollbackCount,\* history: times rollbackTransaction ran per transaction
  rt            \* history: resources before the latest create

vars == <<now, ticketType, voucher, coupon, userPoint, points, txns,
          attendees, calls, started, last, rollbackCount, rt>>

db == <<ticketType, voucher, coupon, userPoint, points, txns, attendees>>

Min(a, b) == IF a <= b THEN a ELSE b
Max(a, b) == IF a >= b THEN a ELSE b

RECURSIVE SumSeq(_)
SumSeq(s) == IF s = <<>> THEN 0 ELSE Head(s) + SumSeq(Tail(s))

\* ----------------------------------------------------------- point ledger
Abs(x) == IF x < 0 THEN -x ELSE x

EarnedOf(ledger, u) ==
  SelectSeq(ledger, LAMBDA p : p.userId = u /\ p.type = "EARNED")

UsedSum(ledger, u) ==
  LET used == SelectSeq(ledger, LAMBDA p : p.userId = u /\ p.type = "USED")
  IN SumSeq([i \in 1..Len(used) |-> used[i].amount])

\* faulty variant of FifoWalk for C19: an entry still counts at the instant
\* it expires
RECURSIVE FifoWalkInclusive(_, _, _)
FifoWalkInclusive(earned, totalUsed, t) ==
  IF earned = <<>> THEN 0
  ELSE LET p == Head(earned)
           consumed == IF totalUsed > 0 THEN Min(p.amount, totalUsed) ELSE 0
           available == p.amount - consumed
           counted == IF available > 0 /\ (~p.hasExpiry \/ p.expiredAt >= t)
                      THEN available ELSE 0
       IN counted + FifoWalkInclusive(Tail(earned), totalUsed - consumed, t)

\* the FIFO walk: consume totalUsed from the entries oldest first and add up
\* what is left of the unexpired ones
RECURSIVE FifoWalk(_, _, _)
FifoWalk(earned, totalUsed, t) ==
  IF earned = <<>> THEN 0
  ELSE LET p == Head(earned)
           consumed == IF totalUsed > 0 THEN Min(p.amount, totalUsed) ELSE 0
           available == p.amount - consumed
           counted == IF available > 0 /\ (~p.hasExpiry \/ p.expiredAt > t)
                      THEN available ELSE 0
       IN counted + FifoWalk(Tail(earned), totalUsed - consumed, t)

calculateUserPointBalance(ledger, u, t) ==
  FifoWalk(EarnedOf(ledger, u), Abs(UsedSum(ledger, u)), t)

\* the earlier of two dates of which either may be null (-1)
Nearest(a, b) == IF b = -1 \/ (a # -1 /\ a < b) THEN a ELSE b

\* faulty variant of ExpiringWalk for C30: no upper end of the window
RECURSIVE ExpiringWalkUnbounded(_, _, _, _)
ExpiringWalkUnbounded(earned, totalUsed, t, warningThreshold) ==
  IF earned = <<>>
  THEN [expiringAmount |-> 0, nearestExpiryDate |-> -1]
  ELSE LET p == Head(earned)
           consumed == IF totalUsed > 0 THEN Min(p.amount, totalUsed) ELSE 0
           available == p.amount - consumed
           rest == ExpiringWalkUnbounded(Tail(earned), totalUsed - consumed,
                                         t, warningThreshold)
       IN IF available > 0 /\ p.hasExpiry /\ p.expiredAt > t
          THEN [expiringAmount |-> available + rest.expiringAmount,
                nearestExpiryDate |->
                  Nearest(p.expiredAt, rest.nearestExpiryDate)]
          ELSE rest

\* the same walk, adding up what is left of the entries that expire after t
\* and not after warningThreshold, and keeping the earliest of their dates
RECURSIVE ExpiringWalk(_, _, _, _)
ExpiringWalk(earned, totalUsed, t, warningThreshold) ==
  IF earned = <<>>
  THEN [expiringAmount |-> 0, nearestExpiryDate |-> -1]
  ELSE LET p == Head(earned)
           consumed == IF totalUsed > 0 THEN Min(p.amount, totalUsed) ELSE 0
           available == p.amount - consumed
           rest == ExpiringWalk(Tail(earned), totalUsed - consumed, t,
                                warningThreshold)
       IN IF available > 0 /\ p.hasExpiry /\ p.expiredAt > t
             /\ p.expiredAt <= warningThreshold
          THEN [expiringAmount |-> available + rest.expiringAmount,
                nearestExpiryDate |->
                  Nearest(p.expiredAt, rest.nearestExpiryDate)]
          ELSE rest

\* warningThreshold.setDate(now.getDate() + days), the clock being in hours
getExpiringPoints(ledger, u, t, days) ==
  ExpiringWalk(EarnedOf(ledger, u), Abs(UsedSum(ledger, u)), t,
               t + 24 * days)

\* ------------------------------------------------------------ call frames
Frame(op, pc, u, t) ==
  [op |-> op, pc |-> pc, userId |-> u, tid |-> t,
   quantity |-> 0, voucherCode |-> NoCode, couponCode |-> NoCode,
   pointsToUse |-> 0, subtotal |-> 0,
   voucherId |-> 0, voucherDiscount |-> 0,
   couponId |-> 0, couponDiscount |-> 0,
   pointsToDeduct |-> 0, todo |-> <<>>,
   hasSeats |-> FALSE, availableSeats |-> 0, hasPrice |-> FALSE, price |-> 0,
   readTotalSeat |-> 0, readAvailableSeat |-> 0, qrToken |-> 0]

InFlight == BagToSet(calls)
Enter(c) == calls (+) SetToBag({c})
Leave(c) == calls (-) SetToBag({c})
Move(c, d) == (calls (-) SetToBag({c})) (+) SetToBag({d})

Outcome(op, t, res) == [op |-> op, tid |-> t, res |-> res]

CanStart == started < MaxCalls /\ BagCardinality(calls) < NumCallers

\* a call that fails before it wrote anything
Fails(op, t, res) ==
  /\ last' = Outcome(op, t, res)
  /\ started' = started + 1
  /\ UNCHANGED <<now, db, calls, rollbackCount, rt>>

NoRT == [tid |-> 0, done |-> FALSE, pre |-> <<>>]

Resources(u) ==
  [availableSeat |-> ticketType.availableSeat,
   sold |-> ticketType.sold,
   usedCount |-> voucher.usedCount,
   isUsed |-> coupon.isUsed,
   balance |-> calculateUserPointBalance(points, u, now),
   point |-> userPoint[u]]

\* ------------------------------------------------------------------- Init
Init ==
  /\ now = Instants[1]
  /\ ticketType = [price |-> 50000, totalSeat |-> 10, availableSeat |-> 10,
                   sold |-> 0]
  /\ voucher = [id |-> 1, eventId |-> "E", code |-> "V", discountType |-> "PERCENTAGE",
                discountAmount |-> 10, startDate |-> 0, endDate |-> 2160,
                usageLimit |-> 1, usedCount |-> 0]
  /\ coupon = [id |-> 1, userId |-> "buyer", code |-> "C",
               discountAmount |-> WelcomeCoupon, expiredAt |-> 2160,
               isUsed |-> FALSE]
  /\ userPoint = [u \in Users |->
                    IF u = "buyer" THEN ReferralPoints ELSE 0]
  /\ points = <<[userId |-> "buyer", amount |-> ReferralPoints,
                 type |-> "EARNED", hasExpiry |-> TRUE, expiredAt |-> 2160,
                 description |-> EarnedDesc, createdBy |-> 0]>>
  /\ txns = <<>>
  /\ attendees = <<>>
  /\ calls = EmptyBag
  /\ started = 0
  /\ last = Outcome("none", 0, "none")
  /\ rollbackCount = <<>>
  /\ rt = NoRT

\* ------------------------------------------------------------------ clock
Tick ==
  /\ \E i \in 1..(Len(Instants) - 1) :
        /\ now = Instants[i]
        /\ now' = Instants[i + 1]
  /\ UNCHANGED <<db, calls, started, last, rollbackCount, rt>>

\* ------------------------------------------------------ createTransaction
CreatesInFlight ==
  LET S == {c \in InFlight : c.op = "create"}
  IN IF S = {} THEN 0 ELSE BagCardinality([c \in S |-> calls[c]])

RECURSIVE Pow2(_)
Pow2(e) == IF e = 0 THEN 1 ELSE 2 * Pow2(e - 1)

\* 2^e modulo 100
RECURSIVE Pow2Mod100(_)
Pow2Mod100(e) == IF e = 0 THEN 1 ELSE (2 * Pow2Mod100(e - 1)) % 100

\* j with 2^-(j+1) <= pct/100 < 2^-j: the binary exponent of pct / 100
BinExp(pct) ==
  IF pct >= 100 THEN -1
  ELSE CHOOSE j \in 0..6 : pct * Pow2(j + 1) >= 100 /\ pct * Pow2(j) < 100

\* k with 2^k < n <= 2^(k+1)
Log2Below(n) ==
  CHOOSE k \in (-1)..28 : Pow2(k + 1) >= n /\ (k = -1 \/ Pow2(k) < n)

\* Math.floor(subtotal * (pct / 100)) in IEEE-754 doubles, 1 <= pct < 200.
\* The quotient pct / 100 is rounded to 53 bits: with s = 53 + BinExp(pct)
\* it is the multiple of 2^-s nearest to pct / 100, below it by
\* r / (100 * 2^s) when r = (pct * 2^s) % 100 is under 50, above it when r
\* is over 50, exact when r = 0.  The product with subtotal is rounded
\* again.  When subtotal * pct / 100 is not an integer the two errors are
\* far smaller than its distance to the next integer and the floor is the
\* exact one.  When it is an integer n and the quotient was rounded down,
\* the product lies below n by subtotal * r / (100 * 2^s); it rounds back
\* to n unless that exceeds half the spacing of the doubles below n,
\* 2^(Log2Below(n) - 53), and then the floor is n - 1.
FloorOfProduct(subtotal, pct) ==
  LET n == (subtotal * pct) \div 100
      j == BinExp(pct)
      r == (pct * Pow2Mod100(53 + j)) % 100
      e == Log2Below(n) + j
      short == IF e >= 0 THEN subtotal * r > 100 * Pow2(e)
               ELSE subtotal * r * Pow2(-e) > 100
  IN IF (subtotal * pct) % 100 # 0 \/ n = 0 THEN n
     ELSE IF r = 0 \/ r > 50 THEN n
     ELSE IF short THEN n - 1 ELSE n

VoucherDiscountOf(v, subtotal) ==
  IF v.discountType = "PERCENTAGE"
  THEN FloorOfProduct(subtotal, v.discountAmount)
  ELSE Min(v.discountAmount, subtotal)

AfterTicket(c) ==
  IF c.voucherCode # NoCode THEN "voucher"
  ELSE IF c.couponCode # NoCode THEN "coupon" ELSE "points"

\* validation, ticket type lookup, own-event check, seat check, subtotal
\* faulty variant of BuysOwnEvent for C39: nobody is taken for the owner
BuysOwnEventNever(u) == FALSE

\* the organizer row of the ticket type's event belongs to the caller
BuysOwnEvent(u) == u = Organizer

CreateChecks(r) ==
  IF r.quantity <= 0 \/ r.pointsToUse < 0
  THEN Fails("create", 0, "Validation")
  ELSE IF r.ticketTypeId \notin {"T", "T2"}
  THEN Fails("create", 0, "NotFound")
  ELSE IF r.ticketTypeId # "T"
  THEN Fails("create", 0, "WrongEvent")
  ELSE IF BuysOwnEvent(r.userId)
  THEN Fails("create", 0, "Forbidden")
  ELSE IF ticketType.availableSeat < r.quantity
  THEN Fails("create", 0, "NotEnoughSeats")
  ELSE LET c0 == [Frame("create", "ticket", r.userId, 0) EXCEPT
                    !.quantity = r.quantity,
                    !.voucherCode = r.voucherCode,
                    !.couponCode = r.couponCode,
                    !.pointsToUse = r.pointsToUse,
                    !.subtotal = ticketType.price * r.quantity]
           c == [c0 EXCEPT !.pc = AfterTicket(c0)]
       IN /\ calls' = Enter(c)
          /\ started' = started + 1
          /\ UNCHANGED <<now, db, last, rollbackCount, rt>>

\* a purchase request arrives
CreateStart ==
  /\ CanStart
  /\ Len(txns) + CreatesInFlight < MaxTxns
  /\ \E r \in Requests : CreateChecks(r)

\* faulty variant of Aborts for C14: the seats were taken before the check
\* that failed and stay taken
AbortsKeepingSeats(c, res) ==
  /\ calls' = Leave(c)
  /\ last' = Outcome(c.op, c.tid, res)
  /\ ticketType' = [ticketType EXCEPT !.availableSeat = @ - c.quantity,
                                      !.sold = @ + c.quantity]
  /\ UNCHANGED <<now, voucher, coupon, userPoint, points, txns, attendees,
                 started, rollbackCount, rt>>

\* a call in flight that throws: its $transaction block rolls back
Aborts(c, res) ==
  /\ calls' = Leave(c)
  /\ last' = Outcome(c.op, c.tid, res)
  /\ UNCHANGED <<now, db, started, rollbackCount, rt>>

\* a call in flight that moves on without writing
Proceeds(c, d) ==
  /\ calls' = Move(c, d)
  /\ UNCHANGED <<now, db, started, last, rollbackCount, rt>>

\* voucher lookup by event, code and validity window; usage limit check
VoucherRows == {voucher, ForeignVoucher}

VoucherMatches(v, code, t) ==
  v.eventId = Event.id /\ v.code = code /\ v.startDate <= t /\ v.endDate >= t

VoucherFound(code, t) == \E v \in VoucherRows : VoucherMatches(v, code, t)

findFirstVoucher(code, t) ==
  CHOOSE v \in VoucherRows : VoucherMatches(v, code, t)

VoucherExhausted(v) == v.usedCount >= v.usageLimit

CreateReadVoucher ==
  \E c \in InFlight :
    /\ c.op = "create" /\ c.pc = "voucher"
    /\ IF VoucherFound(c.voucherCode, now)
          /\ VoucherExhausted(findFirstVoucher(c.voucherCode, now))
       THEN Aborts(c, "VoucherLimit")
       ELSE IF ~VoucherFound(c.voucherCode, now)
       THEN Aborts(c, "InvalidVoucher")
       ELSE Proceeds(c, [c EXCEPT
              !.voucherId = findFirstVoucher(c.voucherCode, now).id,
              !.voucherDiscount =
                 VoucherDiscountOf(findFirstVoucher(c.voucherCode, now),
                                   c.subtotal),
              !.pc = IF c.couponCode # NoCode THEN "coupon" ELSE "points"])

\* coupon lookup by user, code, expiry and isUsed = false
CouponFound(u, code, t) ==
  /\ coupon.userId = u
  /\ coupon.code = code
  /\ coupon.expiredAt >= t
  /\ coupon.isUsed = FALSE

CreateReadCoupon ==
  \E c \in InFlight :
    /\ c.op = "create" /\ c.pc = "coupon"
    /\ IF ~CouponFound(c.userId, c.couponCode, now)
       THEN Aborts(c, "InvalidCoupon")
       ELSE IF c.userId = Organizer
       THEN Aborts(c, "Validation")
       ELSE Proceeds(c, [c EXCEPT
              !.couponId = coupon.id,
              !.couponDiscount = Min(coupon.discountAmount,
                                     c.subtotal - c.voucherDiscount),
              !.pc = "points"])

\* faulty variant of PointsToDeduct for C16: not capped by what is payable
PointsToDeductUncapped(pointsToUse, availablePoints, payable) ==
  Min(pointsToUse, availablePoints)

PointsToDeduct(pointsToUse, availablePoints, payable) ==
  Min(Min(pointsToUse, availablePoints), payable)

\* user lookup, FIFO balance, insufficient-points check, points to deduct
CreateReadPoints ==
  \E c \in InFlight :
    /\ c.op = "create" /\ c.pc = "points"
    /\ LET availablePoints == calculateUserPointBalance(points, c.userId, now)
       IN IF c.userId \notin Users
          THEN Aborts(c, "UserNotFound")
          ELSE IF c.pointsToUse > availablePoints
          THEN Aborts(c, "InsufficientPoints")
          ELSE Proceeds(c, [c EXCEPT
                 !.pointsToDeduct =
                    PointsToDeduct(c.pointsToUse, availablePoints,
                                   c.subtotal - c.voucherDiscount
                                     - c.couponDiscount),
                 !.pc = "commit"])

\* faulty variant of FinalPrice for C18: the coupon is left out
FinalPriceWithoutCoupon(subtotal, voucherDiscount, coupon_, points_) ==
  Max(0, subtotal - voucherDiscount - points_)

FinalPrice(subtotal, voucherDiscount, couponDiscount, pointsToDeduct) ==
  Max(0, subtotal - voucherDiscount - couponDiscount - pointsToDeduct)

\* faulty variant of ReserveSeats for C28: sold is not raised
ReserveSeatsOnly(tt, q) == [tt EXCEPT !.availableSeat = @ - q]

\* the writes of the block, steps 7 to 11, applied at commit
ReserveSeats(tt, q) ==
  [tt EXCEPT !.availableSeat = @ - q, !.sold = @ + q]

CreateCommit ==
  \E c \in InFlight :
    /\ c.op = "create" /\ c.pc = "commit"
    /\ LET id == Len(txns) + 1
           finalPrice == FinalPrice(c.subtotal, c.voucherDiscount,
                                    c.couponDiscount, c.pointsToDeduct)
       IN /\ ticketType' = ReserveSeats(ticketType, c.quantity)
          /\ voucher' = IF c.voucherId # 0
                        THEN [voucher EXCEPT !.usedCount = @ + 1]
                        ELSE voucher
          /\ coupon' = IF c.couponId # 0
                       THEN [coupon EXCEPT !.isUsed = TRUE]
                       ELSE coupon
          /\ userPoint' = IF c.pointsToDeduct > 0
                          THEN [userPoint EXCEPT
                                  ![c.userId] = @ - c.pointsToDeduct]
                          ELSE userPoint
          /\ points' = IF c.pointsToDeduct > 0
                       THEN Append(points,
                              [userId |-> c.userId,
                               amount |-> -c.pointsToDeduct,
                               type |-> "USED", hasExpiry |-> FALSE,
                               expiredAt |-> 0, description |-> UsedDesc,
                               createdBy |-> id])
                       ELSE points
          /\ txns' = Append(txns,
                       [id |-> id, userId |-> c.userId,
                        ticketQty |-> c.quantity, totalPrice |-> c.subtotal,
                        voucherId |-> c.voucherId, couponId |-> c.couponId,
                        pointsUsed |-> c.pointsToDeduct,
                        finalPrice |-> finalPrice,
                        expiredAt |-> now + PaymentWindow,
                        status |-> "WAITING_PAYMENT", updatedAt |-> now,
                        rejectionReason |-> "none"])
          /\ rollbackCount' = Append(rollbackCount, 0)
          /\ rt' = [tid |-> id, done |-> FALSE, pre |-> Resources(c.userId)]
          /\ calls' = Leave(c)
          /\ last' = Outcome("create", id, "ok")
          /\ UNCHANGED <<now, attendees, started>>

\* ---------------------------------------------------- rollbackTransaction
\* One $transaction block.  Its only read is the transaction row, of which
\* it uses the fields no statement ever changes after the insert, so the
\* read and the commit are one step.  No status is read or checked.
ReleaseSeats(tt, q) ==
  [tt EXCEPT !.availableSeat = @ + q, !.sold = @ - q]

\* the deleteMany filter: user, type USED, description, exact amount
MatchesUsedEntry(p, tx) ==
  /\ p.userId = tx.userId
  /\ p.type = "USED"
  /\ p.description = UsedDesc
  /\ p.amount = -tx.pointsUsed

rollbackTransaction(t) ==
  LET tx == txns[t]
  IN /\ ticketType' = ReleaseSeats(ticketType, tx.ticketQty)
     /\ voucher' = IF tx.voucherId # 0
                   THEN [voucher EXCEPT !.usedCount = @ - 1]
                   ELSE voucher
     /\ coupon' = IF tx.couponId # 0
                  THEN [coupon EXCEPT !.isUsed = FALSE]
                  ELSE coupon
     /\ userPoint' = IF tx.pointsUsed > 0
                     THEN [userPoint EXCEPT ![tx.userId] = @ + tx.pointsUsed]
                     ELSE userPoint
     /\ points' = IF tx.pointsUsed > 0
                  THEN SelectSeq(points, LAMBDA p : ~MatchesUsedEntry(p, tx))
                  ELSE points
     /\ rollbackCount' = [rollbackCount EXCEPT ![t] = @ + 1]
     /\ rt' = IF rt.tid = t /\ ~rt.done
              THEN [rt EXCEPT !.done = TRUE]
              ELSE NoRT

\* a call in flight runs rollbackTransaction and moves on to frame d
RollsBack(c, d) ==
  /\ rollbackTransaction(c.tid)
  /\ calls' = Move(c, d)
  /\ UNCHANGED <<now, txns, attendees, started, last>>

\* faulty variant of SetStatus for C35: the update also renews the deadline
SetStatusAndDeadline(t, s) ==
  txns' = [txns EXCEPT ![t].status = s, ![t].updatedAt = now,
                       ![t].expiredAt = now + PaymentWindow]

\* transaction.update({ data: { status } }); @updatedAt stamps the row
SetStatus(t, s) ==
  txns' = [txns EXCEPT ![t].status = s, ![t].updatedAt = now]

TxnIds == 1..Len(txns)

\* --------------------------------------- the checks of actor and status
\* faulty variants for C15 and C13: no owner check; a proof may be uploaded
\* again while it waits for confirmation
IsBuyerUnchecked(u, tx) == u \in Customers
MayUploadAgain(tx) ==
  tx.status \in {"WAITING_PAYMENT", "WAITING_CONFIRMATION"}
IsBuyer(u, tx) == tx.userId = u
\* the caller has an organizer row, and that row owns the event
HasOrganizer(u) == u \in Organizers
OwnsEvent(u) == u = Organizer
MayUpload(tx) == tx.status = "WAITING_PAYMENT"
MayConfirm(tx) == tx.status = "WAITING_CONFIRMATION"
MayReject(tx) == tx.status = "WAITING_CONFIRMATION"
MayCancel(tx) == tx.status \in {"WAITING_PAYMENT", "WAITING_CONFIRMATION"}

\* ----------------------------------------------------- uploadPaymentProof
UploadStart ==
  /\ CanStart
  /\ \E t \in TxnIds, u \in Customers :
       LET tx == txns[t]
       IN IF ~IsBuyer(u, tx)
          THEN Fails("uploadPaymentProof", t, "Forbidden")
          ELSE IF ~MayUpload(tx)
          THEN Fails("uploadPaymentProof", t, "InvalidState")
          ELSE /\ calls' = Enter(Frame("uploadPaymentProof",
                                   IF now > tx.expiredAt
                                   THEN "rollback" ELSE "update", u, t))
               /\ started' = started + 1
               /\ UNCHANGED <<now, db, last, rollbackCount, rt>>

\* the expired branch: rollbackTransaction, then throw; no status is written
UploadExpired ==
  \E c \in InFlight :
    /\ c.op = "uploadPaymentProof" /\ c.pc = "rollback"
    /\ rollbackTransaction(c.tid)
    /\ calls' = Leave(c)
    /\ last' = Outcome(c.op, c.tid, "Expired")
    /\ UNCHANGED <<now, txns, attendees, started>>

UploadUpdate ==
  \E c \in InFlight :
    /\ c.op = "uploadPaymentProof" /\ c.pc = "update"
    /\ SetStatus(c.tid, "WAITING_CONFIRMATION")
    /\ calls' = Move(c, [c EXCEPT !.pc = "notify"])
    /\ UNCHANGED last
    /\ UNCHANGED <<now, ticketType, voucher, coupon, userPoint, points,
                   attendees, started, rollbackCount, rt>>

\* ----------------------------------------------------- confirmTransaction
\* organizer lookup by user id, transaction lookup, status check
ConfirmStart ==
  /\ CanStart
  /\ \E t \in TxnIds, u \in Users \cup Organizers :
       IF ~HasOrganizer(u)
       THEN Fails("confirmTransaction", t, "NotFound")
       ELSE IF ~OwnsEvent(u)
       THEN Fails("confirmTransaction", t, "Forbidden")
       ELSE IF ~MayConfirm(txns[t])
       THEN Fails("confirmTransaction", t, "InvalidState")
       ELSE /\ calls' = Enter(Frame("confirmTransaction", "update", u, t))
            /\ started' = started + 1
            /\ UNCHANGED <<now, db, last, rollbackCount, rt>>

ConfirmUpdate ==
  \E c \in InFlight :
    /\ c.op = "confirmTransaction" /\ c.pc = "update"
    /\ SetStatus(c.tid, "DONE")
    /\ calls' = Move(c, [c EXCEPT !.pc = "attendees",
                                  !.quantity = txns[c.tid].ticketQty])
    /\ UNCHANGED <<now, ticketType, voucher, coupon, userPoint, points,
                   attendees, started, last, rollbackCount, rt>>

\* the unique index on attendees.qrToken, and the table without it
NoTokenIndex(rows, tok) == TRUE

attendees_qrToken_key(rows, tok) ==
  \A i \in 1..Len(rows) : rows[i].qrToken # tok

\* crypto.randomBytes(32) for each of n rows.  Tokens are numbered in the
\* order in which they first appear: all n draws are new, or one of them
\* repeats a token drawn before
TokenDraws(n) ==
  {[i \in 1..n |-> Len(attendees) + i]}
    \cup {[i \in 1..n |-> IF i = k THEN tok ELSE Len(attendees) + i] :
            k \in 1..n, tok \in 1..(Len(attendees) + n)}

\* the loop of attendee.create, one row per seat; an insert the index
\* refuses throws and ends the loop.  checkedInAt -1 is null.
RECURSIVE CreateAttendees(_, _, _)
CreateAttendees(rows, t, toks) ==
  IF toks = <<>>
  THEN rows
  ELSE IF ~attendees_qrToken_key(rows, Head(toks))
  THEN rows
  ELSE CreateAttendees(Append(rows, [transactionId |-> t,
                                     qrToken |-> Head(toks),
                                     checkedIn |-> FALSE,
                                     checkedInAt |-> -1]),
                       t, Tail(toks))

ConfirmAttendees ==
  \E c \in InFlight :
    /\ c.op = "confirmTransaction" /\ c.pc = "attendees"
    /\ \E toks \in TokenDraws(c.quantity) :
         /\ attendees' = CreateAttendees(attendees, c.tid, toks)
         /\ IF Len(attendees') = Len(attendees) + c.quantity
            THEN calls' = Move(c, [c EXCEPT !.pc = "notify"])
                 /\ UNCHANGED last
            ELSE calls' = Leave(c)
                 /\ last' = Outcome(c.op, c.tid, "UniqueViolation")
    /\ UNCHANGED <<now, ticketType, voucher, coupon, userPoint, points,
                   txns, started, rollbackCount, rt>>

\* ------------------------------------------------------ rejectTransaction
RejectStart ==
  /\ CanStart
  /\ \E t \in TxnIds, u \in Users \cup Organizers :
       IF ~HasOrganizer(u)
       THEN Fails("rejectTransaction", t, "NotFound")
       ELSE IF ~OwnsEvent(u)
       THEN Fails("rejectTransaction", t, "Forbidden")
       ELSE IF ~MayReject(txns[t])
       THEN Fails("rejectTransaction", t, "InvalidState")
       ELSE /\ calls' = Enter(Frame("rejectTransaction", "rollback", u, t))
            /\ started' = started + 1
            /\ UNCHANGED <<now, db, last, rollbackCount, rt>>

RejectRollback ==
  \E c \in InFlight :
    /\ c.op = "rejectTransaction" /\ c.pc = "rollback"
    /\ RollsBack(c, [c EXCEPT !.pc = "update"])

RejectUpdate ==
  \E c \in InFlight :
    /\ c.op = "rejectTransaction" /\ c.pc = "update"
    /\ txns' = [txns EXCEPT ![c.tid].status = "REJECTED",
                            ![c.tid].updatedAt = now,
                            ![c.tid].rejectionReason = "reason"]
    /\ calls' = Move(c, [c EXCEPT !.pc = "notify"])
    /\ UNCHANGED last
    /\ UNCHANGED <<now, ticketType, voucher, coupon, userPoint, points,
                   attendees, started, rollbackCount, rt>>

\* ------------------------------------------------------ cancelTransaction
CancelStart ==
  /\ CanStart
  /\ \E t \in TxnIds, u \in Customers :
       LET tx == txns[t]
       IN IF ~IsBuyer(u, tx)
          THEN Fails("cancelTransaction", t, "Forbidden")
          ELSE IF ~MayCancel(tx)
          THEN Fails("cancelTransaction", t, "InvalidState")
          ELSE /\ calls' = Enter(Frame("cancelTransaction", "rollback", u, t))
               /\ started' = started + 1
               /\ UNCHANGED <<now, db, last, rollbackCount, rt>>

CancelRollback ==
  \E c \in InFlight :
    /\ c.op = "cancelTransaction" /\ c.pc = "rollback"
    /\ RollsBack(c, [c EXCEPT !.pc = "update"])

CancelUpdate ==
  \E c \in InFlight :
    /\ c.op = "cancelTransaction" /\ c.pc = "update"
    /\ SetStatus(c.tid, "CANCELLED")
    /\ calls' = Move(c, [c EXCEPT !.pc = "notify"])
    /\ UNCHANGED last
    /\ UNCHANGED <<now, ticketType, voucher, coupon, userPoint, points,
                   attendees, started, rollbackCount, rt>>

\* ------------------------------------------- notifications and e-mails
\* what the collaborators called after the status write may do
Sinks == {"ok", "emailFails", "notificationFails"}

\* createNotification is awaited outside any try block by upload, confirm
\* and reject; the e-mail is sent inside try/catch by upload and confirm,
\* outside by reject and cancel
Reported(op, sink) ==
  IF sink = "notificationFails"
     /\ op \in {"uploadPaymentProof", "confirmTransaction",
                "rejectTransaction"}
  THEN "NotificationError"
  ELSE IF sink = "emailFails"
          /\ op \in {"rejectTransaction", "cancelTransaction"}
  THEN "EmailError"
  ELSE "ok"

\* a handler that undid its work when a collaborator failed
NotifiedOrUndone(c, sink) ==
  /\ calls' = Leave(c)
  /\ last' = Outcome(c.op, c.tid, Reported(c.op, sink))
  /\ IF Reported(c.op, sink) = "ok"
     THEN UNCHANGED <<now, db, started, rollbackCount, rt>>
     ELSE /\ txns' = [txns EXCEPT ![c.tid].status = "WAITING_PAYMENT"]
          /\ UNCHANGED <<now, ticketType, voucher, coupon, userPoint,
                         points, attendees, started, rollbackCount, rt>>

\* the call returns what the collaborators let it return; no row of the
\* modelled tables is written after the status write
Notified(c, sink) ==
  /\ calls' = Leave(c)
  /\ last' = Outcome(c.op, c.tid, Reported(c.op, sink))
  /\ UNCHANGED <<now, db, started, rollbackCount, rt>>

Notify ==
  \E c \in InFlight, sink \in Sinks :
    /\ c.pc = "notify"
    /\ Notified(c, sink)

\* ----------------------------------------------------- the expiry sweeps
\* ids of the rows a findMany returns, in id order
IdsWhere(S) ==
  SelectSeq([i \in 1..Len(txns) |-> i], LAMBDA i : i \in S)

PaymentOverdue(tx, t) ==
  tx.status = "WAITING_PAYMENT" /\ tx.expiredAt < t

\* faulty variant of ConfirmationOverdue for C37: the sweep finds no row
ConfirmationNeverOverdue(tx, t) == FALSE

ConfirmationOverdue(tx, t) ==
  tx.status = "WAITING_CONFIRMATION" /\ tx.updatedAt < t - GracePeriod

\* a sweep that found rows starts its loop at the first of them
StartsLoop(op, u, todo, idle) ==
  /\ started' = started + 1
  /\ IF todo = <<>>
     THEN /\ idle
          /\ UNCHANGED <<now, db, rollbackCount, rt>>
     ELSE /\ calls' = Enter([Frame(op, "rollback", u, Head(todo)) EXCEPT
                               !.todo = todo])
          /\ UNCHANGED <<now, db, last, rollbackCount, rt>>

\* after the status write the loop goes to the next row or ends in frame d
LoopNext(c, d) ==
  IF Len(c.todo) > 1
  THEN [c EXCEPT !.pc = "rollback", !.tid = c.todo[2], !.todo = Tail(c.todo)]
  ELSE d

\* expireTransactions, called by the scheduler
ExpireStart ==
  /\ CanStart
  /\ StartsLoop("expireTransactions", "system",
                IdsWhere({i \in 1..Len(txns) : PaymentOverdue(txns[i], now)}),
                (last' = Outcome("expireTransactions", 0, "ok")
                 /\ UNCHANGED calls))

ExpireRollback ==
  \E c \in InFlight :
    /\ c.op = "expireTransactions" /\ c.pc = "rollback"
    /\ RollsBack(c, [c EXCEPT !.pc = "update"])

ExpireUpdate ==
  \E c \in InFlight :
    /\ c.op = "expireTransactions" /\ c.pc = "update"
    /\ SetStatus(c.tid, "EXPIRED")
    /\ IF Len(c.todo) > 1
       THEN calls' = Move(c, LoopNext(c, c)) /\ UNCHANGED last
       ELSE calls' = Leave(c) /\ last' = Outcome(c.op, 0, "ok")
    /\ UNCHANGED <<now, ticketType, voucher, coupon, userPoint, points,
                   attendees, started, rollbackCount, rt>>

\* cancelTransactions, called by the scheduler
AutoCancelStart ==
  /\ CanStart
  /\ StartsLoop("cancelTransactions", "system",
                IdsWhere({i \in 1..Len(txns) :
                            ConfirmationOverdue(txns[i], now)}),
                (last' = Outcome("cancelTransactions", 0, "ok")
                 /\ UNCHANGED calls))

AutoCancelRollback ==
  \E c \in InFlight :
    /\ c.op = "cancelTransactions" /\ c.pc = "rollback"
    /\ RollsBack(c, [c EXCEPT !.pc = "update"])

AutoCancelUpdate ==
  \E c \in InFlight :
    /\ c.op = "cancelTransactions" /\ c.pc = "update"
    /\ SetStatus(c.tid, "CANCELLED")
    /\ IF Len(c.todo) > 1
       THEN calls' = Move(c, LoopNext(c, c)) /\ UNCHANGED last
       ELSE calls' = Leave(c) /\ last' = Outcome(c.op, 0, "ok")
    /\ UNCHANGED <<now, ticketType, voucher, coupon, userPoint, points,
                   attendees, started, rollbackCount, rt>>

\* ------------------------------------------------------ getMyTransactions
GetMineStart ==
  /\ CanStart
  /\ \E u \in Customers :
       StartsLoop("getMyTransactions", u,
                  IdsWhere({i \in 1..Len(txns) :
                              /\ txns[i].userId = u
                              /\ PaymentOverdue(txns[i], now)}),
                  (calls' = Enter(Frame("getMyTransactions", "fetch", u, 0))
                   /\ UNCHANGED last))

GetMineRollback ==
  \E c \in InFlight :
    /\ c.op = "getMyTransactions" /\ c.pc = "rollback"
    /\ RollsBack(c, [c EXCEPT !.pc = "update"])

GetMineUpdate ==
  \E c \in InFlight :
    /\ c.op = "getMyTransactions" /\ c.pc = "update"
    /\ SetStatus(c.tid, "EXPIRED")
    /\ calls' = Move(c, LoopNext(c, [c EXCEPT !.pc = "fetch", !.tid = 0,
                                             !.todo = <<>>]))
    /\ UNCHANGED <<now, ticketType, voucher, coupon, userPoint, points,
                   attendees, started, last, rollbackCount, rt>>

\* the paginated list query and its DTO
GetMineFetch ==
  \E c \in InFlight :
    /\ c.op = "getMyTransactions" /\ c.pc = "fetch"
    /\ calls' = Leave(c)
    /\ last' = Outcome(c.op, 0, "ok")
    /\ UNCHANGED <<now, db, started, rollbackCount, rt>>

\* ----------------------------------------------------- getTransactionById
\* the lazy expiry runs before the row is fetched and the caller is checked
GetByIdStart ==
  /\ CanStart
  /\ \E t \in TxnIds, u \in Users :
       /\ calls' = Enter(Frame("getTransactionById",
                               IF PaymentOverdue(txns[t], now)
                               THEN "rollback" ELSE "fetch", u, t))
       /\ started' = started + 1
       /\ UNCHANGED <<now, db, last, rollbackCount, rt>>

GetByIdRollback ==
  \E c \in InFlight :
    /\ c.op = "getTransactionById" /\ c.pc = "rollback"
    /\ RollsBack(c, [c EXCEPT !.pc = "update"])

GetByIdUpdate ==
  \E c \in InFlight :
    /\ c.op = "getTransactionById" /\ c.pc = "update"
    /\ SetStatus(c.tid, "EXPIRED")
    /\ calls' = Move(c, [c EXCEPT !.pc = "fetch"])
    /\ UNCHANGED <<now, ticketType, voucher, coupon, userPoint, points,
                   attendees, started, last, rollbackCount, rt>>

\* the caller must be the buyer or the organizer of the event
MayView(u, tx) == tx.userId = u \/ u = Organizer

GetByIdFetch ==
  \E c \in InFlight :
    /\ c.op = "getTransactionById" /\ c.pc = "fetch"
    /\ calls' = Leave(c)
    /\ last' = Outcome(c.op, c.tid,
                       IF MayView(c.userId, txns[c.tid])
                       THEN "ok" ELSE "Forbidden")
    /\ UNCHANGED <<now, db, started, rollbackCount, rt>>

\* ------------------------------------------------------------ updateEvent
\* tickets of the event in transactions with status DONE
DoneTickets ==
  SumSeq([i \in 1..Len(txns) |->
            IF txns[i].status = "DONE" THEN txns[i].ticketQty ELSE 0])

\* event lookup, ownership, capacity validation against the DONE tickets
UpdateEventStart ==
  /\ CanStart
  /\ \E u \in Users, b \in Bodies :
       IF u # Organizer
       THEN Fails("updateEvent", 0, "NotFound")
       ELSE IF b.hasSeats /\ b.availableSeats < DoneTickets
       THEN Fails("updateEvent", 0, "Validation")
       ELSE /\ calls' = Enter([Frame("updateEvent", "read", u, 0) EXCEPT
                                 !.hasSeats = b.hasSeats,
                                 !.availableSeats = b.availableSeats,
                                 !.hasPrice = b.hasPrice,
                                 !.price = b.price])
            /\ started' = started + 1
            /\ UNCHANGED <<now, db, last, rollbackCount, rt>>

\* first statement of the block: event.update returning the ticket types
UpdateEventRead ==
  \E c \in InFlight :
    /\ c.op = "updateEvent" /\ c.pc = "read"
    /\ Proceeds(c, [c EXCEPT !.pc = "write",
                             !.readTotalSeat = ticketType.totalSeat,
                             !.readAvailableSeat = ticketType.availableSeat])

\* the remaining seats computed from the row as it was read
NewAvailableSeat(c) ==
  IF c.hasSeats
  THEN c.availableSeats - (c.readTotalSeat - c.readAvailableSeat)
  ELSE c.readAvailableSeat

\* second statement: ticketType.update with absolute values, then commit
UpdateEventWrite ==
  \E c \in InFlight :
    /\ c.op = "updateEvent" /\ c.pc = "write"
    /\ ticketType' = [ticketType EXCEPT
                        !.price = IF c.hasPrice THEN c.price ELSE @,
                        !.totalSeat = IF c.hasSeats THEN c.availableSeats
                                      ELSE @,
                        !.availableSeat = NewAvailableSeat(c)]
    /\ rt' = NoRT
    /\ calls' = Leave(c)
    /\ last' = Outcome(c.op, 0, "ok")
    /\ UNCHANGED <<now, voucher, coupon, userPoint, points, txns, attendees,
                   started, rollbackCount>>

Next ==
  \/ Tick
  \/ CreateStart
  \/ CreateReadVoucher
  \/ CreateReadCoupon
  \/ CreateReadPoints
  \/ CreateCommit
  \/ UploadStart
  \/ UploadExpired
  \/ UploadUpdate
  \/ ConfirmStart
  \/ ConfirmUpdate
  \/ ConfirmAttendees
  \/ RejectStart
  \/ RejectRollback
  \/ RejectUpdate
  \/ CancelStart
  \/ CancelRollback
  \/ CancelUpdate
  \/ Notify
  \/ ExpireStart
  \/ ExpireRollback
  \/ ExpireUpdate
  \/ AutoCancelStart
  \/ AutoCancelRollback
  \/ AutoCancelUpdate
  \/ GetMineStart
  \/ GetMineRollback
  \/ GetMineUpdate
  \/ GetMineFetch
  \/ GetByIdStart
  \/ GetByIdRollback
  \/ GetByIdUpdate
  \/ GetByIdFetch

Spec == Init /\ [][Next]_vars

\* the capacity editor next to reservations and their release
NextCapacity ==
  \/ Tick
  \/ CreateStart
  \/ CreateReadVoucher
  \/ CreateReadCoupon
  \/ CreateReadPoints
  \/ CreateCommit
  \/ CancelStart
  \/ CancelRollback
  \/ CancelUpdate
  \/ Notify
  \/ UpdateEventStart
  \/ UpdateEventRead
  \/ UpdateEventWrite

SpecCapacity == Init /\ [][NextCapacity]_vars

\* ------------------------------------------- pricing of a purchase alone
\* The purchases of one buyer against every combination of a ticket price,
\* a voucher of the event and a number of referral rewards.  The voucher,
\* the coupon and the rewards expire at hour 50.
Earned(u, amount, hasExpiry, expiredAt) ==
  [userId |-> u, amount |-> amount, type |-> "EARNED",
   hasExpiry |-> hasExpiry, expiredAt |-> expiredAt,
   description |-> EarnedDesc, createdBy |-> 0]

Prices == {50000, 20000}

VoucherKinds ==
  { <<"PERCENTAGE", 10>>, <<"PERCENTAGE", 29>>, <<"PERCENTAGE", 150>>,
    <<"FIXED", 35000>>, <<"FIXED", 150000>> }

Rewards == {1, 3}

Purchases ==
  { Req("buyer", 2, NoCode, NoCode, 0),
    Req("buyer", 2, "V", NoCode, 0),
    Req("buyer", 2, "V", "C", 0),
    Req("buyer", 2, NoCode, NoCode, 10000),
    Req("buyer", 2, "V", NoCode, 10000),
    Req("buyer", 2, "V", "C", 10000),
    Req("buyer", 2, NoCode, NoCode, 20000),
    Req("buyer", 2, "V", "C", 20000),
    Req("buyer", 11, NoCode, NoCode, 0),
    Req("buyer", 2, "X", NoCode, 0),
    Req("other", 2, NoCode, "C", 0),
    Req("other", 2, NoCode, NoCode, 5000),
    Req("ghost", 2, NoCode, NoCode, 0),
    Req("organizer", 2, NoCode, NoCode, 0),
    Req("buyer", 0, NoCode, NoCode, 0),
    Req("buyer", 2, NoCode, NoCode, -1),
    [Req("buyer", 2, NoCode, NoCode, 0) EXCEPT !.ticketTypeId = "T2"],
    [Req("buyer", 2, NoCode, NoCode, 0) EXCEPT !.ticketTypeId = "T9"] }

InitCreate ==
  /\ now = Instants[1]
  /\ \E price \in Prices :
       ticketType = [price |-> price, totalSeat |-> 10, availableSeat |-> 10,
                     sold |-> 0]
  /\ \E k \in VoucherKinds :
       voucher = [id |-> 1, eventId |-> "E", code |-> "V", discountType |-> k[1],
                  discountAmount |-> k[2], startDate |-> 0, endDate |-> 50,
                  usageLimit |-> 1, usedCount |-> 0]
  /\ coupon = [id |-> 1, userId |-> "buyer", code |-> "C",
               discountAmount |-> WelcomeCoupon, expiredAt |-> 50,
               isUsed |-> FALSE]
  /\ \E n \in Rewards :
       /\ userPoint = [u \in Users |->
                         IF u = "buyer" THEN n * ReferralPoints ELSE 0]
       /\ points = [i \in 1..n |->
                      Earned("buyer", ReferralPoints, TRUE, 50)]
  /\ txns = <<>>
  /\ attendees = <<>>
  /\ calls = EmptyBag
  /\ started = 0
  /\ last = Outcome("none", 0, "none")
  /\ rollbackCount = <<>>
  /\ rt = NoRT

PurchaseStart ==
  /\ CanStart
  /\ Len(txns) + CreatesInFlight < MaxTxns
  /\ \E r \in Purchases : CreateChecks(r)

NextCreate ==
  \/ Tick
  \/ PurchaseStart
  \/ CreateReadVoucher
  \/ CreateReadCoupon
  \/ CreateReadPoints
  \/ CreateCommit

SpecCreate == InitCreate /\ [][NextCreate]_vars

\* purchases of a user whose oldest reward expires at hour 2 with nothing of
\* it spent, next to a later reward that is still valid
ExpiringLedgers ==
  { <<Earned("buyer", 3000, TRUE, PaymentWindow),
      Earned("buyer", ReferralPoints, TRUE, 2160)>>,
    <<Earned("buyer", ReferralPoints, TRUE, 2160)>> }

InitPoints ==
  /\ now = Instants[1]
  /\ ticketType = [price |-> 50000, totalSeat |-> 10, availableSeat |-> 10,
                   sold |-> 0]
  /\ voucher = [id |-> 1, eventId |-> "E", code |-> "V",
                discountType |-> "PERCENTAGE", discountAmount |-> 10,
                startDate |-> 0, endDate |-> 2160, usageLimit |-> 1,
                usedCount |-> 0]
  /\ coupon = [id |-> 1, userId |-> "buyer", code |-> "C",
               discountAmount |-> WelcomeCoupon, expiredAt |-> 2160,
               isUsed |-> FALSE]
  /\ points \in ExpiringLedgers
  /\ userPoint = [u \in Users |->
                    IF u = "buyer"
                    THEN SumSeq([i \in 1..Len(points) |-> points[i].amount])
                    ELSE 0]
  /\ txns = <<>>
  /\ attendees = <<>>
  /\ calls = EmptyBag
  /\ started = 0
  /\ last = Outcome("none", 0, "none")
  /\ rollbackCount = <<>>
  /\ rt = NoRT

SpecPoints == InitPoints /\ [][NextCreate]_vars

\* ------------------------------------------------- the point balance alone
\* getProfile recomputes the balance and stores it in users.point
getProfile ==
  /\ CanStart
  /\ userPoint' = [userPoint EXCEPT
                     !["buyer"] = calculateUserPointBalance(points, "buyer",
                                                            now)]
  /\ started' = started + 1
  /\ last' = [op |-> "getProfile", tid |-> 0, res |-> "ok",
              point |-> calculateUserPointBalance(points, "buyer", now),
              pointsExpiringSoon |->
                getExpiringPoints(points, "buyer", now,
                                  WarningDays).expiringAmount,
              pointsExpiryDate |->
                getExpiringPoints(points, "buyer", now,
                                  WarningDays).nearestExpiryDate]
  /\ UNCHANGED <<now, ticketType, voucher, coupon, points, txns, attendees,
                 calls, rollbackCount, rt>>

\* the ledgers of one user: up to three EARNED entries, oldest first, then
\* the USED entries
EarnedEntries ==
  { Earned("buyer", a, x[1], x[2]) :
      a \in {3000, 5000},
      x \in {<<FALSE, 0>>, <<TRUE, 3>>, <<TRUE, 50>>, <<TRUE, 2160>>} }

UsedEntries ==
  { <<>>, <<-4000>>, <<-1000, -2000>>, <<-8000>> }

Ledgers ==
  { e \o [i \in 1..Len(u) |->
            [userId |-> "buyer", amount |-> u[i], type |-> "USED",
             hasExpiry |-> FALSE, expiredAt |-> 0, description |-> UsedDesc,
             createdBy |-> 0]] :
      e \in UNION { [1..n -> EarnedEntries] : n \in 0..3 },
      u \in UsedEntries }

InitBalance ==
  /\ now = Instants[1]
  /\ ticketType = [price |-> 50000, totalSeat |-> 10, availableSeat |-> 10,
                   sold |-> 0]
  /\ voucher = [id |-> 1, eventId |-> "E", code |-> "V", discountType |-> "PERCENTAGE",
                discountAmount |-> 10, startDate |-> 0, endDate |-> 2160,
                usageLimit |-> 1, usedCount |-> 0]
  /\ coupon = [id |-> 1, userId |-> "buyer", code |-> "C",
               discountAmount |-> WelcomeCoupon, expiredAt |-> 2160,
               isUsed |-> FALSE]
  /\ points \in Ledgers
  /\ userPoint = [u \in Users |-> 0]
  /\ txns = <<>>
  /\ attendees = <<>>
  /\ calls = EmptyBag
  /\ started = 0
  /\ last = Outcome("none", 0, "none")
  /\ rollbackCount = <<>>
  /\ rt = NoRT

NextBalance ==
  \/ Tick
  \/ getProfile

SpecBalance == InitBalance /\ [][NextBalance]_vars

\* ------------------------------------------------- tickets at the door
\* what checkIn returns or throws for a token
CheckInResult(tok, res, at) ==
  [op |-> "checkIn", tid |-> 0, res |-> res, qrToken |-> tok,
   checkedInAt |-> at]

\* faulty variant for C24: a ticket of any transaction is let in
MayCheckInAnyStatus(a) == TRUE

\* the parent transaction must be DONE
MayCheckIn(a) == txns[a.transactionId].status = "DONE"

EventEnded(t) == Event.endDate < t

\* attendee.findUnique({ where: { qrToken } })
AttendeeIds(tok) == {i \in 1..Len(attendees) : attendees[i].qrToken = tok}

\* checkIn up to its read: the lookup, the three checks and the answer for
\* a ticket that is already checked in
CheckInStart ==
  /\ CanStart
  /\ started' = started + 1
  /\ \E tok \in 1..(Len(attendees) + 1) :
       IF AttendeeIds(tok) = {}
       THEN /\ last' = CheckInResult(tok, "NotFound", -1)
            /\ UNCHANGED <<now, db, calls, rollbackCount, rt>>
       ELSE LET a == attendees[CHOOSE i \in AttendeeIds(tok) : TRUE]
            IN IF ~MayCheckIn(a)
               THEN /\ last' = CheckInResult(tok, "TransactionNotDone", -1)
                    /\ UNCHANGED <<now, db, calls, rollbackCount, rt>>
               ELSE IF EventEnded(now)
               THEN /\ last' = CheckInResult(tok, "EventEnded", -1)
                    /\ UNCHANGED <<now, db, calls, rollbackCount, rt>>
               ELSE IF a.checkedIn
               THEN /\ last' = CheckInResult(tok, "AlreadyCheckedIn",
                                             a.checkedInAt)
                    /\ UNCHANGED <<now, db, calls, rollbackCount, rt>>
               ELSE /\ calls' = Enter([Frame("checkIn", "update", "staff",
                                             a.transactionId)
                                         EXCEPT !.qrToken = tok])
                    /\ UNCHANGED <<now, db, last, rollbackCount, rt>>

\* attendee.update({ where: { qrToken }, data: { checkedIn, checkedInAt } })
CheckInUpdate ==
  \E c \in InFlight :
    /\ c.op = "checkIn" /\ c.pc = "update"
    /\ attendees' = [i \in 1..Len(attendees) |->
                       IF attendees[i].qrToken = c.qrToken
                       THEN [attendees[i] EXCEPT !.checkedIn = TRUE,
                                                 !.checkedInAt = now]
                       ELSE attendees[i]]
    /\ calls' = Leave(c)
    /\ last' = CheckInResult(c.qrToken, "ok", now)
    /\ UNCHANGED <<now, ticketType, voucher, coupon, userPoint, points,
                   txns, started, rollbackCount, rt>>

\* two paid orders wait for the organizer, who confirms or rejects them
\* while tickets are scanned at the door
Paid(id, u, q) ==
  [id |-> id, userId |-> u, ticketQty |-> q, totalPrice |-> 50000 * q,
   voucherId |-> 0, couponId |-> 0, pointsUsed |-> 0,
   finalPrice |-> 50000 * q, expiredAt |-> PaymentWindow,
   status |-> "WAITING_CONFIRMATION", updatedAt |-> 0,
   rejectionReason |-> "none"]

InitCheckIn ==
  /\ now = Instants[1]
  /\ ticketType = [price |-> 50000, totalSeat |-> 10, availableSeat |-> 7,
                   sold |-> 3]
  /\ voucher = [id |-> 1, eventId |-> "E", code |-> "V", discountType |-> "PERCENTAGE",
                discountAmount |-> 10, startDate |-> 0, endDate |-> 2160,
                usageLimit |-> 1, usedCount |-> 0]
  /\ coupon = [id |-> 1, userId |-> "buyer", code |-> "C",
               discountAmount |-> WelcomeCoupon, expiredAt |-> 2160,
               isUsed |-> FALSE]
  /\ userPoint = [u \in Users |->
                    IF u = "buyer" THEN ReferralPoints ELSE 0]
  /\ points = <<[userId |-> "buyer", amount |-> ReferralPoints,
                 type |-> "EARNED", hasExpiry |-> TRUE, expiredAt |-> 2160,
                 description |-> EarnedDesc, createdBy |-> 0]>>
  /\ txns = <<Paid(1, "buyer", 2), Paid(2, "other", 1)>>
  /\ attendees = <<>>
  /\ calls = EmptyBag
  /\ started = 0
  /\ last = Outcome("none", 0, "none")
  /\ rollbackCount = <<0, 0>>
  /\ rt = NoRT

NextCheckIn ==
  \/ Tick
  \/ ConfirmStart
  \/ ConfirmUpdate
  \/ ConfirmAttendees
  \/ RejectStart
  \/ RejectRollback
  \/ RejectUpdate
  \/ Notify
  \/ CheckInStart
  \/ CheckInUpdate

SpecCheckIn == InitCheckIn /\ [][NextCheckIn]_vars

\* ------------------------------------- the reaper next to the callers
\* The scheduler runs expireTransactions and cancelTransactions again and
\* again, whatever the callers do; the clock goes one reading further than
\* Instants, so that a status written at the last reading of Instants is
\* still followed by a sweep past its grace period.
LiveInstants == Instants \o <<Instants[Len(Instants)] + GracePeriod + 1>>
Horizon == LiveInstants[Len(LiveInstants)]

TickLive ==
  /\ \E i \in 1..(Len(LiveInstants) - 1) :
        /\ now = LiveInstants[i]
        /\ now' = LiveInstants[i + 1]
  /\ UNCHANGED <<db, calls, started, last, rollbackCount, rt>>

\* a run of expireTransactions by the scheduler that finds rows: the
\* findMany, then the loop; a run that finds none changes nothing
JobExpire ==
  LET todo == IdsWhere({i \in 1..Len(txns) : PaymentOverdue(txns[i], now)})
  IN /\ \A c \in InFlight : c.op # "expireTransactions"
     /\ todo # <<>>
     /\ calls' = Enter([Frame("expireTransactions", "rollback", "system",
                              Head(todo)) EXCEPT !.todo = todo])
     /\ UNCHANGED <<now, db, started, last, rollbackCount, rt>>

\* the same for cancelTransactions
JobAutoCancel ==
  LET todo == IdsWhere({i \in 1..Len(txns) :
                          ConfirmationOverdue(txns[i], now)})
  IN /\ \A c \in InFlight : c.op # "cancelTransactions"
     /\ todo # <<>>
     /\ calls' = Enter([Frame("cancelTransactions", "rollback", "system",
                              Head(todo)) EXCEPT !.todo = todo])
     /\ UNCHANGED <<now, db, started, last, rollbackCount, rt>>

\* the purchase made next to the reaper
LiveRequests == { Req("buyer", 2, "V", "C", 5000) }

PurchaseLive ==
  /\ CanStart
  /\ Len(txns) + CreatesInFlight < MaxTxns
  /\ \E r \in LiveRequests : CreateChecks(r)

\* the callers act before the last clock reading; the sweeps at any time
NextLive ==
  \/ TickLive
  \/ now < Horizon /\ PurchaseLive
  \/ now < Horizon /\ CreateReadVoucher
  \/ now < Horizon /\ CreateReadCoupon
  \/ now < Horizon /\ CreateReadPoints
  \/ now < Horizon /\ CreateCommit
  \/ now < Horizon /\ UploadStart
  \/ now < Horizon /\ UploadExpired
  \/ now < Horizon /\ UploadUpdate
  \/ now < Horizon /\ ConfirmStart
  \/ now < Horizon /\ ConfirmUpdate
  \/ now < Horizon /\ ConfirmAttendees
  \/ now < Horizon /\ CancelStart
  \/ now < Horizon /\ CancelRollback
  \/ now < Horizon /\ CancelUpdate
  \/ now < Horizon /\ Notify
  \/ JobExpire
  \/ ExpireRollback
  \/ ExpireUpdate
  \/ JobAutoCancel
  \/ AutoCancelRollback
  \/ AutoCancelUpdate

\* the clock keeps advancing and the sweeps keep being run to their end
FairLive ==
  /\ WF_vars(TickLive)
  /\ WF_vars(JobExpire)
  /\ WF_vars(ExpireRollback)
  /\ WF_vars(ExpireUpdate)
  /\ WF_vars(JobAutoCancel)
  /\ WF_vars(AutoCancelRollback)
  /\ WF_vars(AutoCancelUpdate)

SpecLive == Init /\ [][NextLive]_vars /\ FairLive

\* ------------------------------------------------------------- the claims
Live == {"WAITING_PAYMENT", "WAITING_CONFIRMATION", "DONE"}
Terminal == {"DONE", "REJECTED", "EXPIRED", "CANCELLED"}

\* C1: no oversell.  availableSeat never drops below 0, and as long as no
\* seat was released the quantities of the creates that succeeded sum to at
\* most the seats the category had (10 seats, two creates of 8: one
\* succeeds and 2 seats are left).
C1_NoOversell ==
  /\ ticketType.availableSeat >= 0
  /\ (\A t \in TxnIds : rollbackCount[t] = 0)
       => SumSeq([i \in 1..Len(txns) |-> txns[i].ticketQty])
            <= ticketType.totalSeat

\* C2: the compensation of a transaction is applied at most once over any
\* sequence or interleaving of the operations that roll back.
C2_RolledBackAtMostOnce ==
  \A t \in TxnIds : rollbackCount[t] <= 1

\* C3: once uploadPaymentProof has failed with the expired error, the
\* transaction's status is EXPIRED and its seats are released.
C3_UploadAfterDeadlineExpires ==
  \A t \in TxnIds :
    last = Outcome("uploadPaymentProof", t, "Expired")
      => /\ txns[t].status = "EXPIRED"
         /\ rollbackCount[t] >= 1

\* C4: in every state sold equals the tickets of the transactions whose
\* status is WAITING_PAYMENT, WAITING_CONFIRMATION or DONE.
C4_SoldMatchesLive ==
  ticketType.sold =
    SumSeq([i \in 1..Len(txns) |->
              IF txns[i].status \in Live THEN txns[i].ticketQty ELSE 0])

\* C5: every change of a transaction's status follows an edge of the
\* lifecycle, and a terminal status never changes.
Edges ==
  { <<"WAITING_PAYMENT", "WAITING_CONFIRMATION">>,
    <<"WAITING_CONFIRMATION", "DONE">>,
    <<"WAITING_CONFIRMATION", "REJECTED">>,
    <<"WAITING_PAYMENT", "EXPIRED">>,
    <<"WAITING_PAYMENT", "CANCELLED">>,
    <<"WAITING_CONFIRMATION", "CANCELLED">> }

C5_StatusFollowsEdges ==
  [][\A t \in TxnIds :
       /\ txns'[t].status # txns[t].status
            => <<txns[t].status, txns'[t].status>> \in Edges
       /\ txns[t].status \in Terminal
            => txns'[t].status = txns[t].status]_vars

\* C6: availableSeat + sold = totalSeat in every reachable state.
C6_SeatsAddUp ==
  ticketType.availableSeat + ticketType.sold = ticketType.totalSeat

\* C7: round trip.  When a create is followed by the rollback of the
\* transaction it made, with no other write to the resources in between,
\* seats, sold, usedCount, isUsed, the FIFO balance and the cached point
\* total are what they were before the create.
C7_RoundTrip ==
  rt.done => Resources(txns[rt.tid].userId) = rt.pre

\* C8: a rollback removes from the ledger the USED entry its own
\* transaction created and leaves every other entry in place.
C8_DeletesOnlyOwnEntry ==
  [][\A t \in TxnIds :
       rollbackCount'[t] = rollbackCount[t] + 1
         => points' = SelectSeq(points, LAMBDA p : p.createdBy # t)]_vars

\* C9: usedCount <= usageLimit in every reachable state.
C9_VoucherWithinLimit ==
  voucher.usedCount <= voucher.usageLimit

\* C10: a create that commits with a coupon applied found the coupon owned
\* by its user, unexpired and with isUsed = false at that moment: a used
\* coupon is not accepted again until a rollback resets it.
C10_CouponAcceptedOnlyUnused ==
  [][(Len(txns') = Len(txns) + 1 /\ txns'[Len(txns')].couponId # 0)
       => /\ coupon.userId = txns'[Len(txns')].userId
          /\ coupon.expiredAt >= now
          /\ coupon.isUsed = FALSE]_vars

\* the attendee rows of a transaction
AttendeesOf(t) == SelectSeq(attendees, LAMBDA a : a.transactionId = t)

\* C11: no double settlement.  Under any interleaving of confirms with each
\* other and with reject, cancel or the auto-cancel sweep, a transaction
\* never has more attendee rows than tickets, and attendee rows exist only
\* for transactions whose status is DONE.
C11_NoDoubleSettlement ==
  \A t \in TxnIds :
    /\ Len(AttendeesOf(t)) <= txns[t].ticketQty
    /\ Len(AttendeesOf(t)) > 0 => txns[t].status = "DONE"

\* C12: when a confirmTransaction by the owning organizer returns, the
\* status is DONE and the transaction has exactly ticketQty attendee rows,
\* each with a non-empty qrToken, pairwise distinct.
C12_ConfirmIssuesTickets ==
  \A t \in TxnIds :
    last = Outcome("confirmTransaction", t, "ok")
      => LET rows == AttendeesOf(t)
         IN /\ txns[t].status = "DONE"
            /\ Len(rows) = txns[t].ticketQty
            /\ \A i \in 1..Len(rows) : rows[i].qrToken # 0
            /\ \A i, j \in 1..Len(rows) :
                 rows[i].qrToken = rows[j].qrToken => i = j

\* the operations that move a transaction, and the status each requires
MoveOps ==
  {"uploadPaymentProof", "confirmTransaction", "rejectTransaction",
   "cancelTransaction"}

RequiredStatus(op) ==
  CASE op = "uploadPaymentProof" -> {"WAITING_PAYMENT"}
    [] op = "confirmTransaction" -> {"WAITING_CONFIRMATION"}
    [] op = "rejectTransaction" -> {"WAITING_CONFIRMATION"}
    [] op = "cancelTransaction" -> {"WAITING_PAYMENT", "WAITING_CONFIRMATION"}

Copies(b, c) == IF c \in DOMAIN b THEN b[c] ELSE 0

\* the frames of the calls a step lets in, and a call that ends at its
\* first check
Entered ==
  {c \in BagToSet(calls') :
     started' = started + 1 /\ Copies(calls', c) > Copies(calls, c)}

Refused == started' = started + 1 /\ calls' = calls

\* C13: a move operation called by the rightful actor on a transaction whose
\* status is not the one it requires does not go ahead, and the call that
\* ends with the invalid-state error leaves status, inventory, voucher and
\* coupon counters, point ledger and attendees as they were.
C13_WrongStatusChangesNothing ==
  [][/\ \A c \in Entered :
          c.op \in MoveOps => txns[c.tid].status \in RequiredStatus(c.op)
     /\ (Refused /\ last'.op \in MoveOps /\ last'.res = "InvalidState")
          => UNCHANGED db]_vars

\* C13 happens: a cancel of an already cancelled transaction was refused.
C13_Witness ==
  \E t \in TxnIds :
    /\ last = Outcome("cancelTransaction", t, "InvalidState")
    /\ txns[t].status = "CANCELLED"

\* C14: a createTransaction that fails, at validation or at any check inside
\* its block, leaves availableSeat, sold, usedCount, isUsed, the ledger, the
\* cached point total and the transactions unchanged.
C14_FailedCreateChangesNothing ==
  [][((Refused /\ last'.op = "create")
      \/ \E c \in InFlight :
           /\ c.op = "create"
           /\ calls' = Leave(c)
           /\ Len(txns') = Len(txns))
       => UNCHANGED db]_vars

\* C14 happens: a create was aborted inside its block, after the seat check
\* and the discount lookups, for insufficient points.
C14_Witness ==
  /\ last = Outcome("create", 0, "InsufficientPoints")
  /\ Len(txns) > 0

\* who may call a move operation on a transaction
Rightful(op, u, tx) ==
  IF op \in {"uploadPaymentProof", "cancelTransaction"}
  THEN u = tx.userId
  ELSE u = Organizer

\* C15 as the code has it: a move operation goes ahead only for the rightful
\* actor; a call refused by the actor checks (the 403 of the ownership
\* check, or the 404 "Organizer not found" for a caller without organizer
\* row) leaves status, inventory, counters, ledger and attendees unchanged,
\* whatever the transaction's status.
C15_OnlyRightfulActor ==
  [][/\ \A c \in Entered :
          c.op \in MoveOps => Rightful(c.op, c.userId, txns[c.tid])
     /\ (Refused /\ last'.op \in MoveOps
           /\ last'.res \in {"Forbidden", "NotFound"})
          => UNCHANGED db]_vars

\* C15 as stated: every refusal of a move operation for the actor is a
\* permission error.
C15_AlwaysPermissionError ==
  [][(Refused /\ last'.op \in MoveOps /\ last'.res # "InvalidState")
       => last'.res = "Forbidden"]_vars

\* C15 happens: the organizer of another event was refused the confirmation
\* of a transaction that waits for it.
C15_Witness ==
  \E t \in TxnIds :
    /\ last = Outcome("confirmTransaction", t, "Forbidden")
    /\ txns[t].status = "WAITING_CONFIRMATION"

\* the step of a create that looks at the points: frame c before, d after
PointsStep(c) ==
  /\ c.op = "create" /\ c.pc = "points"
  /\ c.userId \in Users
  /\ Copies(calls', c) < Copies(calls, c)

Payable(c) == c.subtotal - c.voucherDiscount - c.couponDiscount

Applies(c, n) ==
  calls' = Move(c, [c EXCEPT !.pc = "commit", !.pointsToDeduct = n])

\* C16 as the code has it: a request of at most the FIFO balance applies
\* pointsUsed = min(pointsRequested, balance, subtotal - voucherDiscount -
\* couponDiscount); a request larger than the balance fails with the
\* insufficient-points error and changes nothing.  The transaction stores
\* the points applied.
C16_PointsWithinBalance ==
  [][/\ \A c \in InFlight :
          PointsStep(c) =>
            LET balance == calculateUserPointBalance(points, c.userId, now)
            IN IF c.pointsToUse <= balance
               THEN Applies(c, Min(c.pointsToUse, Min(balance, Payable(c))))
               ELSE /\ calls' = Leave(c)
                    /\ last' = Outcome("create", 0, "InsufficientPoints")
                    /\ UNCHANGED db
     /\ \A c \in InFlight :
          (c.op = "create" /\ c.pc = "commit" /\ calls' = Leave(c))
            => txns'[Len(txns')].pointsUsed = c.pointsToDeduct]_vars

\* C16 as stated: for every pointsRequested >= 0, also one larger than the
\* balance, the create applies min(pointsRequested, balance, payable).
C16_PointsAlwaysClamped ==
  [][\A c \in InFlight :
       PointsStep(c) =>
         LET balance == calculateUserPointBalance(points, c.userId, now)
         IN Applies(c, Min(c.pointsToUse, Min(balance, Payable(c))))]_vars

\* C16 happens: 10000 points were requested with 5000 payable, and 5000
\* were applied.
C16_Witness ==
  \E t \in TxnIds :
    /\ last = Outcome("create", t, "ok")
    /\ txns[t].pointsUsed = 5000
    /\ txns[t].finalPrice = 0

\* C17: voucherDiscount = floor(subtotal * pct / 100) for a PERCENTAGE
\* voucher and min(fixedAmount, subtotal) for a FIXED one, and then
\* couponDiscount = min(coupon.discountAmount, subtotal - voucherDiscount).
C17_DiscountOrder ==
  [][\A c \in InFlight, d \in BagToSet(calls') :
       (c.op = "create" /\ d.pc # c.pc /\ calls' = Move(c, d))
         => /\ c.pc = "voucher"
                 => d.voucherDiscount =
                      IF voucher.discountType = "PERCENTAGE"
                      THEN (c.subtotal * voucher.discountAmount) \div 100
                      ELSE Min(voucher.discountAmount, c.subtotal)
            /\ c.pc = "coupon"
                 => d.couponDiscount =
                      Min(coupon.discountAmount,
                          c.subtotal - c.voucherDiscount)]_vars

\* C18: every created transaction stores finalPrice = max(0, subtotal -
\* voucherDiscount - couponDiscount - pointsUsed), and 0 <= finalPrice <=
\* subtotal.
C18_FinalPrice ==
  [][\A c \in InFlight :
       (c.op = "create" /\ c.pc = "commit" /\ calls' = Leave(c))
         => LET tx == txns'[Len(txns')]
            IN /\ tx.totalPrice = c.subtotal
               /\ tx.finalPrice =
                    Max(0, c.subtotal - c.voucherDiscount - c.couponDiscount
                             - tx.pointsUsed)
               /\ tx.finalPrice >= 0
               /\ tx.finalPrice <= tx.totalPrice]_vars

\* C18 happens: a purchase whose voucher exceeds the subtotal was created
\* with a coupon, at final price 0.
C18_Witness ==
  \E t \in TxnIds :
    /\ txns[t].voucherId # 0
    /\ txns[t].couponId # 0
    /\ txns[t].finalPrice = 0
    /\ voucher.discountAmount > txns[t].totalPrice

\* the FIFO reference: the total absolute USED amount is taken from the
\* EARNED entries oldest first; what is left of entry i is its amount less
\* the part of the total that the entries before it did not absorb; the
\* balance adds up what is left of the unexpired entries
FifoReference(ledger, u, t) ==
  LET earned == SelectSeq(ledger, LAMBDA p : p.userId = u /\ p.type = "EARNED")
      used == SelectSeq(ledger, LAMBDA p : p.userId = u /\ p.type = "USED")
      totalUsed == SumSeq([i \in 1..Len(used) |-> Abs(used[i].amount)])
      before(i) == SumSeq([k \in 1..(i - 1) |-> earned[k].amount])
      left(i) == earned[i].amount
                   - Min(earned[i].amount, Max(0, totalUsed - before(i)))
  IN SumSeq([i \in 1..Len(earned) |->
               IF ~earned[i].hasExpiry \/ earned[i].expiredAt > t
               THEN left(i) ELSE 0])

\* C19: the balance that getProfile computes and stores equals the FIFO
\* reference, for every ledger and clock.
C19_BalanceIsFifo ==
  [][(Refused /\ last'.op = "getProfile")
       => userPoint'["buyer"] = FifoReference(points, "buyer", now)]_vars

\* C19 happens: EARNED 5000 then 3000, the second expired, 4000 used: the
\* balance is 1000.
C19_Witness ==
  /\ last.op = "getProfile"
  /\ Len(points) = 3
  /\ points[1].amount = 5000 /\ points[1].expiredAt > now
  /\ points[2].amount = 3000 /\ points[2].hasExpiry
  /\ points[2].expiredAt <= now
  /\ points[3].amount = -4000
  /\ userPoint["buyer"] = 1000

\* a non-terminal transaction past its deadline
Stale(tx, t) ==
  \/ tx.status = "WAITING_PAYMENT" /\ tx.expiredAt < t
  \/ tx.status = "WAITING_CONFIRMATION" /\ tx.updatedAt < t - GracePeriod

\* C20: getTransactionById and getMyTransactions never return a transaction
\* that is WAITING_PAYMENT past its payment deadline, nor one that is
\* WAITING_CONFIRMATION for longer than the 3-day grace period.
C20_NoStaleRead ==
  [][\A c \in InFlight :
       (c.pc = "fetch" /\ calls' = Leave(c) /\ last'.res = "ok")
         => IF c.op = "getTransactionById"
            THEN ~Stale(txns[c.tid], now)
            ELSE \A t \in TxnIds :
                   txns[t].userId = c.userId => ~Stale(txns[t], now)]_vars

\* a step taken by the call in flight c
StepOf(c) == c \in InFlight /\ Copies(calls', c) < Copies(calls, c)

\* C21: expireTransactions moves to EXPIRED, with its resources released,
\* exactly the transactions that are WAITING_PAYMENT with a payment deadline
\* earlier than now: the rows it selects are those, every release and every
\* status write of the sweep acts on such a row, and a row in any other
\* status or with a deadline not yet passed is left untouched by it.
C21_ExpiresOnlyOverdue ==
  [][/\ \A c \in Entered :
          c.op = "expireTransactions"
            => c.todo = IdsWhere({i \in 1..Len(txns) :
                                    PaymentOverdue(txns[i], now)})
     /\ \A c \in InFlight :
          (c.op = "expireTransactions" /\ StepOf(c))
            => /\ PaymentOverdue(txns[c.tid], now)
               /\ c.pc = "update" => txns'[c.tid].status = "EXPIRED"]_vars

\* C22: cancelTransactions moves to CANCELLED, with its resources released,
\* exactly the transactions that are WAITING_CONFIRMATION with a
\* confirmation-wait clock more than 3 days old; a transaction whose proof
\* was submitted less than 3 days ago is never auto-cancelled.
C22_CancelsOnlyOverdue ==
  [][/\ \A c \in Entered :
          c.op = "cancelTransactions"
            => c.todo = IdsWhere({i \in 1..Len(txns) :
                                    ConfirmationOverdue(txns[i], now)})
     /\ \A c \in InFlight :
          (c.op = "cancelTransactions" /\ StepOf(c))
            => /\ ConfirmationOverdue(txns[c.tid], now)
               /\ c.pc = "update" => txns'[c.tid].status = "CANCELLED"]_vars

\* C23: checkIn is idempotent.  Over any number of calls for one token, in
\* sequence or overlapping, checkedIn and checkedInAt are written only while
\* the attendee is not yet checked in, hence once; and a call that returns
\* for an attendee who is checked in returns the 'already checked in' result
\* with the stored checkedInAt and modifies nothing.
C23_CheckInOnce ==
  [][/\ \A c \in InFlight :
          (c.op = "checkIn" /\ StepOf(c))
            => \A i \in AttendeeIds(c.qrToken) : ~attendees[i].checkedIn
     /\ (last' # last /\ last'.op = "checkIn")
          => \A i \in AttendeeIds(last'.qrToken) :
               attendees[i].checkedIn
                 => /\ last'.res \in {"AlreadyCheckedIn",
                                      "TransactionNotDone", "EventEnded"}
                    /\ last'.res = "AlreadyCheckedIn"
                         => last'.checkedInAt = attendees[i].checkedInAt
                    /\ UNCHANGED db]_vars

\* the refusals of checkIn
CheckInErrors == {"NotFound", "TransactionNotDone", "EventEnded"}

\* C24: checkIn(token) fails with not-found when no attendee has the token,
\* and fails as invalid when the parent transaction is not DONE or the event
\* has ended; otherwise it goes ahead; a failing call leaves every attendee's
\* checkedIn and checkedInAt, and all other rows, as they were.
C24_CheckInPreconditions ==
  [][/\ \A c \in Entered :
          c.op = "checkIn"
            => /\ AttendeeIds(c.qrToken) # {}
               /\ \A i \in AttendeeIds(c.qrToken) :
                    txns[attendees[i].transactionId].status = "DONE"
               /\ ~EventEnded(now)
     /\ (Refused /\ last'.op = "checkIn")
          => LET ids == AttendeeIds(last'.qrToken)
             IN /\ ids = {} <=> last'.res = "NotFound"
                /\ \A i \in ids :
                     IF txns[attendees[i].transactionId].status # "DONE"
                     THEN last'.res = "TransactionNotDone"
                     ELSE IF EventEnded(now)
                     THEN last'.res = "EventEnded"
                     ELSE last'.res = "AlreadyCheckedIn"
                /\ UNCHANGED db]_vars

\* C24 happens: a ticket of a transaction that is not DONE, a ticket scanned
\* after the end of the event, or an unknown token was refused.
C24_Witness ==
  /\ last.op = "checkIn"
  /\ last.res = "TransactionNotDone"
  /\ \E i \in AttendeeIds(last.qrToken) :
       txns[attendees[i].transactionId].status = "REJECTED"

\* the errors a collaborator's failure surfaces as
SinkErrors == {"NotificationError", "EmailError"}

\* C25: a failure of the notification sink or of the e-mail sender after
\* uploadPaymentProof, confirmTransaction, rejectTransaction or
\* cancelTransaction has committed its status change undoes nothing: the
\* step in which the call meets its collaborators leaves the status, the
\* released or held resources and the issued attendees as they are, whether
\* the collaborators succeed or fail.
C25_SinkFailureUndoesNothing ==
  [][\A c \in InFlight :
       (c.pc = "notify" /\ StepOf(c))
         => /\ last'.op = c.op /\ last'.tid = c.tid
            /\ last'.res \in SinkErrors \cup {"ok"}
            /\ UNCHANGED <<db, rollbackCount>>]_vars

\* C25 happens: the notification of an upload failed and the transaction is
\* WAITING_CONFIRMATION all the same.
C25_Witness ==
  /\ last.op = "uploadPaymentProof"
  /\ last.res = "NotificationError"
  /\ txns[last.tid].status = "WAITING_CONFIRMATION"

\* C26: notification and e-mail failures after the status change are
\* swallowed: uploadPaymentProof, confirmTransaction, rejectTransaction and
\* cancelTransaction return success whenever their status change was
\* committed, whether or not a collaborator fails.
C26_SinkFailureSwallowed ==
  [][\A c \in InFlight :
       (c.pc = "notify" /\ StepOf(c)) => last'.res = "ok"]_vars

\* the voucher errors of createTransaction
VoucherErrors == {"InvalidVoucher", "VoucherLimit"}

\* C27: createTransaction applies a voucher only if a voucher with the given
\* code exists for the same event with startDate <= now <= endDate and
\* usedCount < usageLimit: the lookup lets the create go on with such a
\* voucher and with no other, a create whose lookup finds none fails with a
\* voucher error and changes nothing, and the create that commits with a
\* voucher raises the usedCount of a voucher of its own event that is below
\* its usageLimit.
C27_VoucherAppliedOnlyIfValid ==
  [][\A c \in InFlight :
       /\ (c.op = "create" /\ c.pc = "voucher" /\ StepOf(c))
            => IF \E v \in VoucherRows :
                    /\ VoucherMatches(v, c.voucherCode, now)
                    /\ v.usedCount < v.usageLimit
               THEN \E d \in Entered \cup BagToSet(calls') :
                      /\ d.op = "create" /\ d.pc # "voucher"
                      /\ d.voucherId = voucher.id
                      /\ voucher.eventId = Event.id
                      /\ voucher.code = c.voucherCode
               ELSE /\ last'.op = "create" /\ last'.res \in VoucherErrors
                    /\ calls' = Leave(c)
                    /\ UNCHANGED db
       /\ (c.op = "create" /\ c.pc = "commit" /\ StepOf(c)
             /\ c.voucherId # 0)
            => /\ c.voucherId = voucher.id
               /\ voucher.eventId = Event.id
               /\ voucher.usedCount < voucher.usageLimit]_vars

\* C28: a successful createTransaction for quantity q lowers availableSeat by
\* q and raises sold by q, raises the applied voucher's usedCount by 1, sets
\* the applied coupon's isUsed, lowers the cached point total by pointsUsed
\* and appends exactly one USED entry of amount -pointsUsed when pointsUsed >
\* 0, creates one WAITING_PAYMENT transaction whose deadline is 2 hours after
\* creation, and changes nothing else.
C28_CreateEffects ==
  [][\A c \in InFlight :
       (c.op = "create" /\ c.pc = "commit" /\ StepOf(c))
         => LET id == Len(txns) + 1
                tx == txns'[id]
            IN /\ last' = Outcome("create", id, "ok")
               /\ ticketType' =
                    [ticketType EXCEPT
                       !.availableSeat = @ - c.quantity,
                       !.sold = @ + c.quantity]
               /\ voucher' = IF tx.voucherId # 0
                             THEN [voucher EXCEPT !.usedCount = @ + 1]
                             ELSE voucher
               /\ coupon' = IF tx.couponId # 0
                            THEN [coupon EXCEPT !.isUsed = TRUE]
                            ELSE coupon
               /\ IF tx.pointsUsed > 0
                  THEN /\ userPoint' =
                            [userPoint EXCEPT ![c.userId] = @ - tx.pointsUsed]
                       /\ Len(points') = Len(points) + 1
                       /\ SubSeq(points', 1, Len(points)) = points
                       /\ points'[Len(points')].type = "USED"
                       /\ points'[Len(points')].userId = c.userId
                       /\ points'[Len(points')].amount = -tx.pointsUsed
                  ELSE UNCHANGED <<userPoint, points>>
               /\ Len(txns') = id
               /\ SubSeq(txns', 1, Len(txns)) = txns
               /\ tx.status = "WAITING_PAYMENT"
               /\ tx.ticketQty = c.quantity
               /\ tx.userId = c.userId
               /\ tx.expiredAt = now + PaymentWindow
               /\ UNCHANGED attendees]_vars

\* C28 happens: a create with voucher, coupon and points applied committed.
C28_Witness ==
  /\ last.op = "create" /\ last.res = "ok"
  /\ txns[last.tid].voucherId # 0
  /\ txns[last.tid].couponId # 0
  /\ txns[last.tid].pointsUsed > 0
  /\ txns[last.tid].status = "WAITING_PAYMENT"
  /\ points[Len(points)].amount = -txns[last.tid].pointsUsed

\* C29: no check-in token is ever reused: in every reachable state no two
\* attendee rows, of the same or of different transactions, have the same
\* qrToken.
C29_TokensUnique ==
  \A i, j \in 1..Len(attendees) :
    attendees[i].qrToken = attendees[j].qrToken => i = j

\* C29 happens: both transactions have attendee rows, and the last confirm
\* drew a token that a row already had.
C29_Witness ==
  /\ \E i, j \in 1..Len(attendees) :
       attendees[i].transactionId # attendees[j].transactionId
  /\ last.op = "confirmTransaction" /\ last.res = "UniqueViolation"

\* what is left of the i-th EARNED entry of u after the FIFO consumption
LeftOf(ledger, u, i) ==
  LET earned == EarnedOf(ledger, u)
      before == SumSeq([k \in 1..(i - 1) |-> earned[k].amount])
  IN earned[i].amount
       - Min(earned[i].amount, Max(0, Abs(UsedSum(ledger, u)) - before))

\* the EARNED entries of u with something left that expire within the
\* warning window
ExpiringSoon(ledger, u, t) ==
  {i \in 1..Len(EarnedOf(ledger, u)) :
     /\ LeftOf(ledger, u, i) > 0
     /\ EarnedOf(ledger, u)[i].hasExpiry
     /\ t < EarnedOf(ledger, u)[i].expiredAt
     /\ EarnedOf(ledger, u)[i].expiredAt <= t + 24 * WarningDays}

\* C30: getExpiringPoints performs the same FIFO walk as the balance and
\* returns the sum of the amounts left after consumption of the EARNED
\* entries whose expiry satisfies now < expiredAt <= now + window, together
\* with the earliest expiry date of these (null, -1, when there is none);
\* the amount never exceeds calculateUserPointBalance for the same ledger
\* and clock.
C30_ExpiringPoints ==
  [][(Refused /\ last'.op = "getProfile")
       => LET soon == ExpiringSoon(points, "buyer", now)
              earned == EarnedOf(points, "buyer")
          IN /\ last'.pointsExpiringSoon =
                  SumSeq([i \in 1..Len(earned) |->
                            IF i \in soon THEN LeftOf(points, "buyer", i)
                            ELSE 0])
             /\ IF soon = {}
                THEN last'.pointsExpiryDate = -1
                ELSE /\ \E i \in soon :
                          last'.pointsExpiryDate = earned[i].expiredAt
                     /\ \A i \in soon :
                          last'.pointsExpiryDate <= earned[i].expiredAt
             /\ last'.pointsExpiringSoon
                  <= calculateUserPointBalance(points, "buyer", now)
             /\ last'.point = FifoReference(points, "buyer", now)]_vars

\* C30 happens: of two entries with something left one expires within the
\* window and one after it, and an entry inside the window is used up.
C30_Witness ==
  /\ last.op = "getProfile"
  /\ Len(EarnedOf(points, "buyer")) = 3
  /\ LeftOf(points, "buyer", 1) = 0
  /\ EarnedOf(points, "buyer")[1].hasExpiry
  /\ EarnedOf(points, "buyer")[1].expiredAt = 50
  /\ EarnedOf(points, "buyer")[2].expiredAt = 50
  /\ EarnedOf(points, "buyer")[2].hasExpiry
  /\ EarnedOf(points, "buyer")[3].expiredAt = 2160
  /\ EarnedOf(points, "buyer")[3].hasExpiry
  /\ last.pointsExpiringSoon > 0
  /\ last.pointsExpiringSoon < last.point
  /\ last.pointsExpiryDate = 50

\* C31: at a fixed clock value, a create that commits with p > 0 points
\* applied lowers the user's calculateUserPointBalance by exactly p, for
\* every ledger, including one that holds an older EARNED entry which is
\* expired and not yet fully consumed.  (Stated for the creates whose p is
\* within the balance at the clock value of the commit.)
C31_SpendLowersBalance ==
  [][\A c \in InFlight :
       (c.op = "create" /\ c.pc = "commit" /\ StepOf(c)
          /\ c.pointsToDeduct > 0
          /\ c.pointsToDeduct
               <= calculateUserPointBalance(points, c.userId, now))
         => calculateUserPointBalance(points', c.userId, now)
              = calculateUserPointBalance(points, c.userId, now)
                  - c.pointsToDeduct]_vars

\* C32: whatever voucher and coupon are applied, a create stores
\* 0 <= voucherDiscount <= subtotal, 0 <= couponDiscount <= subtotal -
\* voucherDiscount and 0 <= pointsUsed <= pointsToUse; no discount component
\* is negative.
C32_DiscountsInRange ==
  [][\A c \in InFlight :
       (c.op = "create" /\ c.pc = "commit" /\ StepOf(c))
         => /\ 0 <= c.voucherDiscount
            /\ c.voucherDiscount <= c.subtotal
            /\ 0 <= c.couponDiscount
            /\ c.couponDiscount <= c.subtotal - c.voucherDiscount
            /\ 0 <= txns'[Len(txns')].pointsUsed
            /\ txns'[Len(txns')].pointsUsed <= c.pointsToUse]_vars

\* C33: in every reachable state with no call in flight the voucher's
\* usedCount equals the number of transactions that reference it and are
\* WAITING_PAYMENT, WAITING_CONFIRMATION or DONE; usedCount is never negative.
C33_UsedCountIsLiveUses ==
  /\ voucher.usedCount >= 0
  /\ calls = EmptyBag
       => voucher.usedCount
            = Cardinality({i \in 1..Len(txns) :
                             txns[i].voucherId = voucher.id
                               /\ txns[i].status \in Live})

\* C34: in every reachable state with no call in flight at most one
\* WAITING_PAYMENT, WAITING_CONFIRMATION or DONE transaction references the
\* coupon, and the coupon's isUsed is true exactly when such a transaction
\* exists.
C34_CouponHeldByOne ==
  LET holders == {i \in 1..Len(txns) :
                    txns[i].couponId = coupon.id /\ txns[i].status \in Live}
  IN calls = EmptyBag
       => /\ Cardinality(holders) <= 1
          /\ coupon.isUsed <=> (holders # {})

\* the fields of a transaction that creation writes and nothing else should
Stored(tx) ==
  <<tx.userId, tx.ticketQty, tx.totalPrice, tx.voucherId, tx.couponId,
    tx.pointsUsed, tx.finalPrice, tx.expiredAt>>

StoredFieldsKept == \A t \in TxnIds : Stored(txns'[t]) = Stored(txns[t])

\* what the create of the newest transaction took, by its stored fields
TookStored ==
  LET tx == txns'[Len(txns')]
      spent == IF tx.pointsUsed > 0 THEN tx.pointsUsed ELSE 0
  IN /\ ticketType'.availableSeat = ticketType.availableSeat - tx.ticketQty
     /\ ticketType'.sold = ticketType.sold + tx.ticketQty
     /\ voucher'.usedCount
          = voucher.usedCount + (IF tx.voucherId # 0 THEN 1 ELSE 0)
     /\ userPoint'[tx.userId] = userPoint[tx.userId] - spent

\* what one run of rollbackTransaction on t gives back, by the same fields
GivesBackStored(t) ==
  LET tx == txns[t]
      spent == IF tx.pointsUsed > 0 THEN tx.pointsUsed ELSE 0
  IN /\ ticketType'.availableSeat = ticketType.availableSeat + tx.ticketQty
     /\ ticketType'.sold = ticketType.sold - tx.ticketQty
     /\ voucher'.usedCount
          = voucher.usedCount - (IF tx.voucherId # 0 THEN 1 ELSE 0)
     /\ userPoint'[tx.userId] = userPoint[tx.userId] + spent

C36_UpdateEventKeepsSeats ==
  [][\A c \in InFlight :
       (c.op = "updateEvent" /\ c.pc = "write" /\ StepOf(c) /\ c.hasSeats
          /\ BagCardinality(calls) = 1
          /\ c.readAvailableSeat = ticketType.availableSeat
          /\ c.readTotalSeat = ticketType.totalSeat)
         => /\ ticketType'.availableSeat >= 0
            /\ ticketType'.availableSeat + ticketType'.sold
                 = ticketType'.totalSeat]_vars

\* C38: a getTransactionById by a user who is neither the buyer nor the
\* organizer fails with the permission error and changes no state: it
\* neither rolls the transaction back nor expires it.
C38_StrangerReadChangesNothing ==
  [][\A c \in InFlight :
       (c.op = "getTransactionById" /\ StepOf(c)
          /\ ~MayView(c.userId, txns[c.tid]))
         => /\ db' = db
            /\ c.pc = "fetch" => last' = Outcome(c.op, c.tid, "Forbidden")]_vars

\* C39: the organizer of the event never holds a transaction for it: no
\* create of the organizer gets past the ownership check, no transaction row
\* carries the organizer as its user, and the create that is refused with
\* the 403 on arrival leaves every row as it was.
C39_OwnerCannotBuy ==
  [][/\ \A c \in InFlight' : ~(c.op = "create" /\ c.userId = Organizer)
     /\ \A i \in 1..Len(txns') : txns'[i].userId # Organizer
     /\ (started' = started + 1 /\ calls' = calls
           /\ last' = Outcome("create", 0, "Forbidden"))
          => db' = db]_vars

\* the organizer was refused while a transaction of a customer exists
C39_Witness ==
  /\ last = Outcome("create", 0, "Forbidden")
  /\ Len(txns) >= 1

\* C37: when the clock keeps advancing and expireTransactions and
\* cancelTransactions keep being run, every transaction that is
\* WAITING_PAYMENT or WAITING_CONFIRMATION is DONE, REJECTED, EXPIRED or
\* CANCELLED at some later moment, whatever the callers do or leave undone.
C37_EventuallyTerminal ==
  \A t \in 1..MaxTxns :
    (t \in TxnIds /\ txns[t].status \notin Terminal)
      ~> (t \in TxnIds /\ txns[t].status \in Terminal)

\* a transaction left alone after its proof was uploaded, cancelled by the
\* sweep once the grace period was over
C37_Witness ==
  \E t \in TxnIds :
    /\ txns[t].status = "CANCELLED"
    /\ last = Outcome("cancelTransactions", 0, "ok")
    /\ now = Horizon
====
